---- MODULE Spec2Model ----
(***************************************************************************)
(* Upload & processing orchestration of the SDS Data Extractor front end:  *)
(* the App component (isProcessing, processingResults), the FileUpload     *)
(* component (pdfFiles, excelFile, uploadProgress, error, handleSubmit)    *)
(* and the DownloadSection reset, with the POST /api/upload requests that  *)
(* are outstanding.                                                        *)
(*                                                                         *)
(* A JavaScript value that may be null/undefined is modelled as a sequence *)
(* of length at most one: <<>> is null/undefined, <<v>> is the value v.    *)
(* File names are sequences of characters, so that endsWith is computed.   *)
(***************************************************************************)
EXTENDS Integers, Sequences, FiniteSets, Bags, TLC

VARIABLES
    isProcessing,       \* App: useState(false)
    processingResults,  \* App: useState(null)
    pdfFiles,           \* FileUpload: useState<File[]>([])
    excelFile,          \* FileUpload: useState<File | null>(null)
    uploadProgress,     \* FileUpload: useState(0)
    error,              \* FileUpload: useState<string | null>(null)
    inflight            \* the axios.post calls that have not settled (a bag)

vars == <<isProcessing, processingResults, pdfFiles, excelFile,
          uploadProgress, error, inflight>>

\* ---------------------------------------------------------------- bounds

MaxDocs == 2        \* longest document sequence explored
MaxInFlight == 2    \* most POST requests outstanding at once

\* ------------------------------------------------------- values and files

Null == <<>>
Some(v) == <<v>>
Truthy(opt) == opt # Null /\ opt[1] # ""

Ext_xlsx == <<".", "x", "l", "s", "x">>

PdfType == "application/pdf"
XlsxType == "application/vnd.openxmlformats-officedocument.spreadsheetml.sheet"

File(name, type) == [name |-> name, type |-> type]

\* Candidates of the PDF dropzone: two PDFs and one file that only looks like one.
DocA == File(<<"a", ".", "p", "d", "f">>, PdfType)
DocB == File(<<"b", ".", "p", "d", "f">>, PdfType)
DocC == File(<<"c", ".", "p", "d", "f">>, "image/png")

\* What one drop on the PDF dropzone may hand to onDropPdf.
DropLists ==
    { <<>>, <<DocA>>, <<DocB>>, <<DocC>>,
      <<DocA, DocB>>, <<DocB, DocA>>, <<DocA, DocA>>,
      <<DocC, DocA>>, <<DocB, DocC>>, <<DocC, DocC>>,
      <<DocA, DocC, DocB>> }

\* Candidates of the Excel dropzone.
SheetA == File(<<"a">> \o Ext_xlsx, XlsxType)
SheetB == File(<<"b">> \o Ext_xlsx, "")
SheetC == File(<<"c", ".", "x", "l", "s">>, XlsxType)
SheetD == File(<<"x", "l", "s", "x">>, XlsxType)
SheetUniverse == {SheetA, SheetB, SheetC, SheetD}

SeqsUpTo(S, n) == UNION {[1..k -> S] : k \in 0..n}

\* String.prototype.endsWith
endsWith(s, suffix) ==
    /\ Len(s) >= Len(suffix)
    /\ SubSeq(s, Len(s) - Len(suffix) + 1, Len(s)) = suffix

\* ------------------------------------------------------------- messages

MsgInvalidPdf == "Please upload valid PDF files"
MsgInvalidExcel == "Please upload a valid Excel file (.xlsx)"
MsgNeedBoth == "Please upload both PDF files and an Excel file"
MsgFallback == "An error occurred during processing"
MsgFailed == "Processing failed"

\* ------------------------------------------------------ service responses

\* What the extraction service may answer. status "network" is a request that
\* got no response; kind "null" is a body that parses to JSON null; a body
\* that is no JSON object (text, HTML) reads as an object without fields.
Body(kind, m, o, s, e) ==
    [kind |-> kind, message |-> m, outputFile |-> o, sessionId |-> s, error |-> e]

MessageBodies ==
    {Body("object", Some("Updated 3 rows"), o, s, Null) :
        o \in {Null, Some("out.xlsx")}, s \in {Null, Some("abc123")}}

ErrorBodies ==
    {Body("object", Null, Null, Null, e) : e \in {Null, Some(""), Some("Malformed PDF")}}
    \cup {Body("null", Null, Null, Null, Null)}

NoBody == Body("none", Null, Null, Null, Null)

Responses ==
    {[status |-> "network", body |-> NoBody]}
    \cup {[status |-> "2xx", body |-> b] : b \in MessageBodies \cup ErrorBodies}
    \cup {[status |-> "non2xx", body |-> b] : b \in ErrorBodies}

\* Bytes reported by upload progress events, and the totals a request may have
\* (0: the total is not computable).
ByteCounts == {1, 150}
Totals == {0, 150}

\* ------------------------------------------------------------ App render

\* {!processingResults?.success && <FileUpload ... />}
FileUploadShown(results) == ~(results # Null /\ results[1].success)

\* {isProcessing && <ProcessingStatus />}
ProcessingStatusShown == isProcessing

\* {processingResults?.success && processingResults.outputFile && <DownloadSection ... />}
DownloadSectionShown(results) ==
    /\ results # Null
    /\ results[1].success
    /\ Truthy(results[1].outputFile)

\* The state a FileUpload instance is created with; an instance that is not
\* rendered holds no state, which is modelled as this state.
UploadInit ==
    /\ pdfFiles' = <<>>
    /\ excelFile' = Null
    /\ uploadProgress' = 0
    /\ error' = Null

\* ------------------------------------------------------- File selection

\* validFiles with the type test left out.
validFiles_NoFilter(acceptedFiles) == acceptedFiles

\* acceptedFiles.filter(file => file.type === 'application/pdf')
validFiles(acceptedFiles) == SelectSeq(acceptedFiles, LAMBDA file : file.type = PdfType)

onDropPdf(acceptedFiles) ==
    /\ UNCHANGED <<isProcessing, processingResults, excelFile, uploadProgress, inflight>>
    /\ FileUploadShown(processingResults)
    /\ IF Len(validFiles(acceptedFiles)) > 0
       THEN /\ Len(pdfFiles) + Len(validFiles(acceptedFiles)) <= MaxDocs
            /\ pdfFiles' = pdfFiles \o validFiles(acceptedFiles)
            /\ error' = Null
       ELSE /\ error' = Some(MsgInvalidPdf)
            /\ pdfFiles' = pdfFiles

\* useDropzone({..., maxFiles: 1}): the Excel dropzone hands over at most one file.
MaxExcelFiles == 1

\* acceptsExcel testing for 'xlsx' without the dot.
acceptsExcel_NoDot(acceptedFiles) ==
    /\ Len(acceptedFiles) > 0
    /\ endsWith(acceptedFiles[1].name, <<"x", "l", "s", "x">>)

\* file && file.name.endsWith('.xlsx'), file being acceptedFiles[0]
acceptsExcel(acceptedFiles) ==
    /\ Len(acceptedFiles) > 0
    /\ endsWith(acceptedFiles[1].name, Ext_xlsx)

onDropExcel(acceptedFiles) ==
    /\ UNCHANGED <<isProcessing, processingResults, pdfFiles, uploadProgress, inflight>>
    /\ FileUploadShown(processingResults)
    /\ IF acceptsExcel(acceptedFiles)
       THEN /\ excelFile' = Some(acceptedFiles[1])
            /\ error' = Null
       ELSE /\ error' = Some(MsgInvalidExcel)
            /\ excelFile' = excelFile

\* prev.filter((_, i) => i !== index), index counted from 0
withoutIndex(prev, index) ==
    LET keep == {i \in 1..Len(prev) : i - 1 # index}
        pos(k) == CHOOSE i \in keep : Cardinality({j \in keep : j < i}) = k - 1
    IN  [k \in 1..Cardinality(keep) |-> prev[pos(k)]]

removePdfFile(index) ==
    /\ FileUploadShown(processingResults)
    /\ pdfFiles' = withoutIndex(pdfFiles, index)
    /\ UNCHANGED <<isProcessing, processingResults, excelFile, uploadProgress, error, inflight>>

\* ------------------------------------------------------------ Submission

\* selectionInvalid with && in place of ||.
selectionInvalid_Both(docs, sheet) == Len(docs) = 0 /\ sheet = Null

\* pdfFiles.length === 0 || !excelFile        (the guard of handleSubmit)
selectionInvalid(docs, sheet) == Len(docs) = 0 \/ sheet = Null

\* disabled={pdfFiles.length === 0 || !excelFile}    (the submit button)
submitDisabled == Len(pdfFiles) = 0 \/ excelFile = Null

\* An axios.post that was issued: the bytes its progress events have reported,
\* the total they carry, and whether the FileUpload instance whose setters its
\* callbacks hold has been removed from the page since.
Request(total) == [loaded |-> 0, total |-> total, orphaned |-> FALSE]

Outstanding == BagCardinality(inflight)

\* handleSubmit up to the await of axios.post; total is the size the browser
\* will report for the multipart body (0 when it is not computable). The
\* FormData built from pdfFiles and excelFile leaves with the request and is
\* read by no later step of the page, so a request does not carry it.
handleSubmit(total) ==
    /\ FileUploadShown(processingResults)
    /\ IF selectionInvalid(pdfFiles, excelFile)
       THEN /\ error' = Some(MsgNeedBoth)
            /\ UNCHANGED <<isProcessing, inflight>>
       ELSE /\ Outstanding < MaxInFlight
            /\ error' = Null
            /\ isProcessing' = TRUE
            /\ inflight' = inflight (+) SetToBag({Request(total)})
    /\ UNCHANGED <<processingResults, pdfFiles, excelFile, uploadProgress>>

\* Math.round(n / d) for n >= 0, d > 0: halves round up.
MathRound(n, d) == (2 * n + d) \div (2 * d)

FallbackTotal == 100

\* Math.round((loaded ? loaded * 100 : 0) / (total || 100))
percentCompleted(loaded, total) ==
    MathRound(IF loaded # 0 THEN loaded * 100 ELSE 0,
              IF total # 0 THEN total ELSE FallbackTotal)

\* One upload progress event of request req: the bytes sent so far grow and,
\* when the total is computable, do not pass it. The setter of an instance
\* that is no longer rendered changes nothing.
onUploadProgress(req, loaded) ==
    /\ BagIn(req, inflight)
    /\ loaded > req.loaded
    /\ req.total # 0 => loaded <= req.total
    /\ inflight' = (inflight (-) SetToBag({req}))
                        (+) SetToBag({[req EXCEPT !.loaded = loaded]})
    /\ uploadProgress' = IF req.orphaned
                         THEN uploadProgress
                         ELSE percentCompleted(loaded, req.total)
    /\ UNCHANGED <<isProcessing, processingResults, pdfFiles, excelFile, error>>

Result(success, message, outputFile, sessionId, err) ==
    [success |-> success, message |-> message, outputFile |-> outputFile,
     sessionId |-> sessionId, error |-> err]

\* The try block is left for the catch block when axios.post rejects (no
\* response, or a status outside 2xx) or when reading data.message throws
\* because the body is null.
throws(resp) == resp.status # "2xx" \/ resp.body.kind = "null"

\* err.response?.data?.error || 'An error occurred during processing', and
\* the fallback alone when err is no axios error
errorMessage(resp) ==
    IF resp.status = "non2xx" /\ Truthy(resp.body.error)
    THEN resp.body.error[1]
    ELSE MsgFallback

\* The object handed to onProcessingComplete.
resultOf(resp) ==
    IF throws(resp)
    THEN Result(FALSE, Some(MsgFailed), Null, Null, Some(errorMessage(resp)))
    ELSE Result(TRUE, resp.body.message, resp.body.outputFile, resp.body.sessionId, Null)

\* A 2xx answer comes after the whole body was sent and its last progress
\* event was delivered.
uploadComplete(req) ==
    /\ req.loaded > 0
    /\ req.total # 0 => req.loaded = req.total

\* The requests of B once the FileUpload instance is removed from the page.
Orphan(B) ==
    LET S == {[r EXCEPT !.orphaned = TRUE] : r \in BagToSet(B)}
    IN  [r \in S |-> CopiesIn(r, B) + CopiesIn([r EXCEPT !.orphaned = FALSE], B)]

\* handleSubmit from the await on: request req settles with resp, the result
\* is handed to handleProcessingComplete, and App renders again.
postSettled(req, resp) ==
    /\ BagIn(req, inflight)
    /\ resp.status = "2xx" => uploadComplete(req)
    /\ processingResults' = Some(resultOf(resp))
    /\ isProcessing' = FALSE
    /\ IF FileUploadShown(processingResults')
       THEN /\ inflight' = inflight (-) SetToBag({req})
            /\ error' = IF req.orphaned THEN error ELSE Some(errorMessage(resp))
            /\ UNCHANGED <<pdfFiles, excelFile, uploadProgress>>
       ELSE /\ inflight' = Orphan(inflight (-) SetToBag({req}))
            /\ UploadInit

\* window.location.reload(): the page starts over and drops what was outstanding.
handleReset ==
    /\ DownloadSectionShown(processingResults)
    /\ isProcessing' = FALSE
    /\ processingResults' = Null
    /\ inflight' = EmptyBag
    /\ UploadInit

\* ------------------------------------------------------------ the system

Init ==
    /\ isProcessing = FALSE
    /\ processingResults = Null
    /\ pdfFiles = <<>>
    /\ excelFile = Null
    /\ uploadProgress = 0
    /\ error = Null
    /\ inflight = EmptyBag

Next ==
    \/ \E acceptedFiles \in DropLists : onDropPdf(acceptedFiles)
    \/ \E acceptedFiles \in SeqsUpTo(SheetUniverse, MaxExcelFiles) : onDropExcel(acceptedFiles)
    \/ \E index \in 0..MaxDocs : removePdfFile(index)
    \/ \E total \in Totals : handleSubmit(total)
    \/ \E req \in BagToSet(inflight), loaded \in ByteCounts : onUploadProgress(req, loaded)
    \/ \E req \in BagToSet(inflight), resp \in Responses : postSettled(req, resp)
    \/ handleReset

Spec == Init /\ [][Next]_vars

\* ------------------------------------------------------------ the claims

\* The session state the page shows.
Submitting == isProcessing
Idle == ~isProcessing /\ processingResults = Null
Succeeded == ~isProcessing /\ processingResults # Null /\ processingResults[1].success
Failed == ~isProcessing /\ processingResults # Null /\ ~processingResults[1].success

\* A step that settles a request with resp.
Settles(resp) == \E req \in BagToSet(inflight) : postSettled(req, resp)

\* A step of handleSubmit that passes the guard, and one that does not.
SubmitAccepted == \E total \in Totals : handleSubmit(total) /\ inflight' # inflight
SubmitRejected == \E total \in Totals : handleSubmit(total) /\ inflight' = inflight

\* C1: at most one POST /api/upload is outstanding in every reachable state
\* (a submit() made while a submission is in flight starts no second transfer).
C1_SingleFlight == Outstanding <= 1

\* The failures of the specification: no response, a status outside 2xx, or a
\* 2xx answer whose body is malformed or has no message.
IsFailure(resp) ==
    \/ resp.status # "2xx"
    \/ resp.body.kind # "object"
    \/ resp.body.message = Null

\* The errorDetail the specification asks for: the server's error string when
\* the body has one (a non-empty one), the generic fallback otherwise.
FailureDetail(resp) ==
    IF Truthy(resp.body.error) THEN resp.body.error[1] ELSE MsgFallback

\* C2: every failure outcome yields {success:false, message:"Processing
\* failed", errorDetail}, errorDetail being the server's error string or the
\* fallback, and the attempt issues no further request.
C2_FailureResult ==
    [][\A resp \in Responses :
        (Settles(resp) /\ IsFailure(resp)) =>
            /\ processingResults' =
                   Some(Result(FALSE, Some(MsgFailed), Null, Null, Some(FailureDetail(resp))))
            /\ BagCardinality(inflight') = Outstanding - 1]_vars

\* C3: a 2xx answer with message m, outputFile o and sessionId s yields
\* exactly {success:true, message:m, outputFile:o, sessionId:s}, and the
\* session moves from Submitting to Succeeded.
C3_SuccessResult ==
    [][\A resp \in Responses :
        (Settles(resp) /\ ~IsFailure(resp)) =>
            /\ processingResults' =
                   Some(Result(TRUE, resp.body.message, resp.body.outputFile,
                               resp.body.sessionId, Null))
            /\ Submitting
            /\ Succeeded']_vars

\* The validation gate of the specification.
canSubmit(docs, sheet) == Len(docs) >= 1 /\ sheet # Null

\* C4: the submit button is enabled iff there is at least one document and a
\* spreadsheet; a handleSubmit that finds the gate closed leaves the session
\* as it is (Idle stays Idle), reports the validation error and issues no
\* request, and one that finds it open starts a submission.
C4_ValidationGate ==
    [][/\ ~submitDisabled <=> canSubmit(pdfFiles, excelFile)
       /\ ~submitDisabled' <=> canSubmit(pdfFiles', excelFile')
       /\ \A total \in Totals :
            handleSubmit(total) =>
                IF canSubmit(pdfFiles, excelFile)
                THEN /\ Submitting'
                     /\ BagCardinality(inflight') = Outstanding + 1
                ELSE /\ UNCHANGED <<isProcessing, processingResults, inflight>>
                     /\ Idle => Idle'
                     /\ error' = Some(MsgNeedBoth)]_vars

\* A rejected handleSubmit has acted on a fresh page: one document, no
\* spreadsheet, the validation error shown, nothing sent.
C4_Witness ==
    /\ Idle
    /\ Len(pdfFiles) = 1
    /\ excelFile = Null
    /\ error = Some(MsgNeedBoth)
    /\ Outstanding = 0

\* C5: the session is Submitting exactly while a request is outstanding: it
\* is not left in Submitting once every request has settled, and it is not
\* shown as not Submitting while one is outstanding.
C5_SubmittingIffOutstanding == Submitting <=> Outstanding > 0

\* The candidates of one call that are PDFs, in their order.
RECURSIVE PdfOnly(_)
PdfOnly(candidates) ==
    IF candidates = <<>>
    THEN <<>>
    ELSE (IF Head(candidates).type = "application/pdf" THEN <<Head(candidates)>> ELSE <<>>)
         \o PdfOnly(Tail(candidates))

\* C6: each onDropPdf call appends its application/pdf candidates, in order,
\* to the documents (nothing is dropped, nothing deduplicated); a call with no
\* such candidate reports a reason and leaves documents and spreadsheet alone;
\* the documents grow by no other step and hold PDFs only.
C6_AddDocuments ==
    [][/\ \A acceptedFiles \in DropLists :
            onDropPdf(acceptedFiles) =>
                /\ pdfFiles' = pdfFiles \o PdfOnly(acceptedFiles)
                /\ excelFile' = excelFile
                /\ PdfOnly(acceptedFiles) = <<>> => error' = Some(MsgInvalidPdf)
       /\ Len(pdfFiles') > Len(pdfFiles) =>
            \E acceptedFiles \in DropLists : onDropPdf(acceptedFiles)
       /\ \A k \in DOMAIN pdfFiles' : pdfFiles'[k].type = "application/pdf"]_vars

\* Two calls have added b.pdf and then a.pdf, and a later call without a PDF
\* was rejected.
C6_Witness ==
    /\ pdfFiles = <<DocB, DocA>>
    /\ error = Some(MsgInvalidPdf)

\* name = <prefix>.xlsx
HasXlsxExtension(name) ==
    \E k \in 0..Len(name) : name = SubSeq(name, 1, k) \o <<".", "x", "l", "s", "x">>

\* C7: onDropExcel with a candidate whose name ends in .xlsx replaces the
\* spreadsheet, whatever it was; with any other candidate, or none, it
\* reports a reason and leaves spreadsheet and documents alone.
C7_SetSpreadsheet ==
    [][\A acceptedFiles \in SeqsUpTo(SheetUniverse, MaxExcelFiles) :
        onDropExcel(acceptedFiles) =>
            /\ pdfFiles' = pdfFiles
            /\ IF acceptedFiles # <<>> /\ HasXlsxExtension(acceptedFiles[1].name)
               THEN excelFile' = Some(acceptedFiles[1])
               ELSE /\ excelFile' = excelFile
                    /\ error' = Some(MsgInvalidExcel)]_vars

\* b.xlsx is held (it replaced a.xlsx or was set first), documents are
\* present, and a later invalid candidate was rejected.
C7_Witness ==
    /\ excelFile = Some(SheetB)
    /\ pdfFiles # <<>>
    /\ error = Some(MsgInvalidExcel)

\* C8: progress is reset to 0 when a submission starts, does not decrease
\* while the submission runs, and is 100 when the submission succeeds.
C8_ProgressPerSubmission ==
    [][/\ SubmitAccepted => uploadProgress' = 0
       /\ (\E req \in BagToSet(inflight), loaded \in ByteCounts :
              onUploadProgress(req, loaded)) => uploadProgress' >= uploadProgress
       /\ \A req \in BagToSet(inflight), resp \in Responses :
            (postSettled(req, resp) /\ ~req.orphaned /\ ~throws(resp)) =>
                uploadProgress = 100]_vars

\* round(bytesSent * 100 / bytesTotal) clamped to 0..100, and 0 when the total
\* is unknown or zero.
Clamp(x) == IF x < 0 THEN 0 ELSE IF x > 100 THEN 100 ELSE x
SpecPercent(bytesSent, bytesTotal) ==
    IF bytesTotal = 0 THEN 0 ELSE Clamp((2 * bytesSent * 100 + bytesTotal) \div (2 * bytesTotal))

\* C9: every progress value emitted equals SpecPercent of the event, so
\* uploadProgress is in 0..100.
C9_ProgressValue ==
    [][/\ \A req \in BagToSet(inflight), loaded \in ByteCounts :
            (onUploadProgress(req, loaded) /\ ~req.orphaned) =>
                uploadProgress' = SpecPercent(loaded, req.total)
       /\ uploadProgress' \in 0..100]_vars

\* C10: when a submission fails, the form is shown with the selection it was
\* submitted with (if the form still held a submittable selection before the
\* failure arrived, it does after), so that a fresh submit is accepted; and
\* the session enters Submitting by handleSubmit only.
C10_FailureKeepsSelection ==
    [][/\ \A resp \in Responses :
            (Settles(resp) /\ throws(resp)) =>
                /\ FileUploadShown(processingResults')
                /\ FileUploadShown(processingResults) =>
                       (pdfFiles' = pdfFiles /\ excelFile' = excelFile)
                /\ (FileUploadShown(processingResults) => ~submitDisabled) =>
                       ~submitDisabled'
       /\ (~Submitting /\ Submitting') => SubmitAccepted]_vars

\* C11: every success result carries an output reference, so a Succeeded
\* session presents the download section; and whenever the session is not
\* Submitting, the upload form or the download section is presented.
C11_NoPartialSuccess ==
    /\ (processingResults # Null /\ processingResults[1].success) =>
           processingResults[1].outputFile # Null
    /\ Succeeded => DownloadSectionShown(processingResults)
    /\ ~Submitting =>
           (FileUploadShown(processingResults) \/ DownloadSectionShown(processingResults))

====
